---- MODULE Spec2Model ----
(***************************************************************************)
(* Model of package utils of app_action: the pull-request preview          *)
(* sanitizer (SanitizeSpecForPullRequestPreview), the app-name generator   *)
(* (GenerateAppName), the domain token substitution                        *)
(* (SubstituteDomainTokens) and PRRefFromContext.                          *)
(*                                                                         *)
(* The repository holds two copies of the package: src/utils/preview.go    *)
(* (name made from the head branch) and src/unnamed/part_001 (name made    *)
(* from owner, repo and merge ref, with a SHA-256 suffix).  Both are       *)
(* modelled; the variable pkg says which copy a behaviour runs.            *)
(*                                                                         *)
(* A Go string is a sequence of one-character strings (ASCII bytes).       *)
(***************************************************************************)
EXTENDS Integers, Sequences, FiniteSets, TLC

VARIABLES pkg, spec, pre, ghCtx, preserveDomains, err, calls, out, prev

vars == <<pkg, spec, pre, ghCtx, preserveDomains, err, calls, out, prev>>

----------------------------------------------------------------------------
(* Bounds of the model *)

\* number of sanitizer calls made on one spec object
MaxCalls == 2
\* length of the longest generated run of letters in an input string
MaxPad == 64
\* largest pull-request number of an event
MaxPR == 12

----------------------------------------------------------------------------
(* Program constants *)

\* App names must be at most 32 characters.
NameLimit == 32
\* DNS label limit used for the branch part of a domain
LabelLimit == 63
\* hex characters kept of the SHA-256 digest
HexLen == 8

----------------------------------------------------------------------------
(* Go standard library string operations, byte by byte *)

UpperCase == <<"A","B","C","D","E","F","G","H","I","J","K","L","M",
               "N","O","P","Q","R","S","T","U","V","W","X","Y","Z">>
LowerCase == <<"a","b","c","d","e","f","g","h","i","j","k","l","m",
               "n","o","p","q","r","s","t","u","v","w","x","y","z">>
Digits == <<"0","1","2","3","4","5","6","7","8","9">>

Range(s) == { s[i] : i \in 1..Len(s) }

\* unicode.ToLower on ASCII: the lower-case letter of each upper-case letter
LowerOf == [c \in Range(UpperCase) |-> LowerCase[CHOOSE i \in 1..26 : UpperCase[i] = c]]

LowerByte(c) == IF c \in DOMAIN LowerOf THEN LowerOf[c] ELSE c

\* strings.ToLower
ToLower(s) == [i \in 1..Len(s) |-> LowerByte(s[i])]

\* s[:n]
Slice(s, n) == SubSeq(s, 1, n)

\* strings.HasPrefix
HasPrefix(s, p) == Len(p) <= Len(s) /\ SubSeq(s, 1, Len(p)) = p

RECURSIVE TrimLeft(_, _)
TrimLeft(s, c) ==
  IF s # <<>> /\ Head(s) = c THEN TrimLeft(Tail(s), c) ELSE s

RECURSIVE TrimRight(_, _)
TrimRight(s, c) ==
  IF s # <<>> /\ s[Len(s)] = c THEN TrimRight(SubSeq(s, 1, Len(s) - 1), c) ELSE s

\* strings.Trim(s, "-") for a one-byte cutset
Trim(s, c) == TrimRight(TrimLeft(s, c), c)

\* strconv of a non-negative integer (fmt "%d")
RECURSIVE FormatInt(_)
FormatInt(n) ==
  IF n < 10 THEN <<Digits[n + 1]>>
  ELSE FormatInt(n \div 10) \o <<Digits[(n % 10) + 1]>>

\* strings.NewReplacer("/", "-", "_", "-", ".", "-").Replace
\* (utils/preview.go GenerateAppName and SubstituteDomainTokens)
RECURSIVE DashReplace(_)
DashReplace(s) ==
  IF s = <<>> THEN <<>>
  ELSE (IF Head(s) \in {"/", "_", "."} THEN <<"-">> ELSE <<Head(s)>>)
       \o DashReplace(Tail(s))

\* strings.NewReplacer("/", "-", ":", "", "_", "-", ".", "-").Replace
\* (hashed GenerateAppName)
RECURSIVE NameReplace(_)
NameReplace(s) ==
  IF s = <<>> THEN <<>>
  ELSE (IF Head(s) \in {"/", "_", "."} THEN <<"-">>
        ELSE IF Head(s) = ":" THEN <<>>
        ELSE <<Head(s)>>)
       \o NameReplace(Tail(s))

\* the character class [a-z0-9-]
LabelBytes == Range(LowerCase) \cup Range(Digits) \cup {"-"}
HexBytes == Range(Digits) \cup {"a", "b", "c", "d", "e", "f"}

\* regexp.MustCompile(`[^a-z0-9-]`).ReplaceAllString(s, "")
RECURSIVE StripNonLabel(_)
StripNonLabel(s) ==
  IF s = <<>> THEN <<>>
  ELSE (IF Head(s) \in LabelBytes THEN <<Head(s)>> ELSE <<>>)
       \o StripNonLabel(Tail(s))

----------------------------------------------------------------------------
(* App names.  A name is its text before the hash suffix plus, for a name  *)
(* that carries a suffix, the string the SHA-256 digest was taken of: the  *)
(* suffix "-" ++ hex(sha256(sum))[:8] is kept symbolic, with the digest    *)
(* treated as injective on its input.                                      *)

PlainName(s) == [text |-> s, hashed |-> FALSE, sum |-> <<>>]

\* len("-" + hex.EncodeToString(hasher.Sum(nil))[:8])
SuffixLen == 1 + HexLen

\* len(name)
NameLen(n) == Len(n.text) + (IF n.hashed THEN SuffixLen ELSE 0)

Min(a, b) == IF a < b THEN a ELSE b

\* mutant: the limit forgets the length of the suffix
HashedGenerateAppName_FullLimit(repoOwner, repo, ref) ==
  LET baseName == NameReplace(ToLower(repoOwner \o <<"-">> \o repo \o <<"-">> \o ref))
      limit    == Min(Len(baseName), NameLimit)
  IN  [text |-> Slice(baseName, limit), hashed |-> TRUE, sum |-> baseName]

\* GenerateAppName of the hashed copy
HashedGenerateAppName(repoOwner, repo, ref) ==
  LET baseName == NameReplace(ToLower(repoOwner \o <<"-">> \o repo \o <<"-">> \o ref))
      limit    == Min(Len(baseName), NameLimit - SuffixLen)
  IN  [text |-> Slice(baseName, limit), hashed |-> TRUE, sum |-> baseName]

\* GenerateAppName of utils/preview.go
GenerateAppName(repoOwner, repo, branchName) ==
  LET baseName == Trim(StripNonLabel(DashReplace(ToLower(branchName))), "-")
  IN  PlainName(IF Len(baseName) > NameLimit
                  THEN TrimRight(Slice(baseName, NameLimit), "-")
                  ELSE baseName)

----------------------------------------------------------------------------
(* GitHub context and event payload *)

\* error values
Nil == "nil"
ErrNoPullRequest == "failed to get PR number: pull_request field didn't exist on event"
ErrNoNumber == "failed to get PR number: missing pull request number"

\* float64 -> int conversion of a non-negative number given in tenths
IntOfFloat(tenths) == tenths \div 10

\* PRRefFromContext
PRRefFromContext(c) ==
  IF ~c.Event.hasPullRequest
    THEN [ref |-> <<>>, err |-> ErrNoPullRequest]
  ELSE IF ~c.Event.hasNumber
    THEN [ref |-> <<>>, err |-> ErrNoNumber]
  ELSE [ref |-> FormatInt(IntOfFloat(c.Event.number)) \o <<"/","m","e","r","g","e">>,
        err |-> Nil]

----------------------------------------------------------------------------
(* Domain token substitution *)

TokBranch == <<"{","B","R","A","N","C","H","}">>
TokPRNumber == <<"{","P","R","_","N","U","M","B","E","R","}">>
TokRepo == <<"{","R","E","P","O","}">>
TokOwner == <<"{","O","W","N","E","R","}">>

\* strings.Replacer.Replace for a list of (old, new) pairs with non-empty
\* old strings: matches are taken left to right without overlap, and at one
\* position the old strings are compared in argument order
RECURSIVE Replace(_, _)
Replace(pairs, s) ==
  IF s = <<>> THEN <<>>
  ELSE LET m == { k \in 1..Len(pairs) : HasPrefix(s, pairs[k].old) }
       IN  IF m # {}
             THEN LET k == CHOOSE j \in m : \A i \in m : j <= i
                  IN  pairs[k].new
                      \o Replace(pairs, SubSeq(s, Len(pairs[k].old) + 1, Len(s)))
             ELSE <<Head(s)>> \o Replace(pairs, Tail(s))

\* mutant: hyphens are trimmed before the cut to the label limit
SafeBranchName_TrimFirst(branchName) ==
  LET s == Trim(StripNonLabel(DashReplace(ToLower(branchName))), "-")
  IN  IF Len(s) > LabelLimit THEN Slice(s, LabelLimit) ELSE s

\* safeBranchName of SubstituteDomainTokens
SafeBranchName(branchName) ==
  LET s == StripNonLabel(DashReplace(ToLower(branchName)))
      t == IF Len(s) > LabelLimit THEN Slice(s, LabelLimit) ELSE s
  IN  Trim(t, "-")

\* prNumber of SubstituteDomainTokens
PRNumberString(c) ==
  IF c.Event.hasPullRequest /\ c.Event.hasNumber
    THEN FormatInt(IntOfFloat(c.Event.number))
    ELSE <<>>

\* the replacer of SubstituteDomainTokens
TokenPairs(c) ==
  << [old |-> TokBranch,   new |-> SafeBranchName(c.HeadRef)],
     [old |-> TokPRNumber, new |-> PRNumberString(c)],
     [old |-> TokRepo,     new |-> c.repo],
     [old |-> TokOwner,    new |-> c.repoOwner] >>

\* mutant: the substituted domains are appended to the list
SubstituteDomainTokens_Append(s, c) ==
  IF s.Domains.isNil THEN s
  ELSE [s EXCEPT !.Domains.elems =
          s.Domains.elems
          \o [i \in 1..Len(s.Domains.elems) |-> Replace(TokenPairs(c), s.Domains.elems[i])]]

\* SubstituteDomainTokens (it always returns a nil error)
SubstituteDomainTokens(s, c) ==
  IF s.Domains.isNil THEN s
  ELSE [s EXCEPT !.Domains.elems =
          [i \in 1..Len(s.Domains.elems) |-> Replace(TokenPairs(c), s.Domains.elems[i])]]

----------------------------------------------------------------------------
(* The sanitizer *)

NilList == [isNil |-> TRUE, elems |-> <<>>]

\* fmt.Sprintf("%s/%s", repoOwner, repo)
FullRepo(c) == c.repoOwner \o <<"/">> \o c.repo

\* mutant: the repo is compared without regard to case
SanitizeComponent_FoldCase(comp, c) ==
  IF comp.GitHub.isNil \/ ToLower(comp.GitHub.Repo) # ToLower(FullRepo(c))
    THEN comp
    ELSE [comp EXCEPT !.GitHub.DeployOnPush = FALSE,
                      !.GitHub.Branch = c.HeadRef]

\* mutant: the branch is set to the merge ref, deployOnPush is kept
SanitizeComponent_MergeRef(comp, c) ==
  IF comp.GitHub.isNil \/ comp.GitHub.Repo # FullRepo(c)
    THEN comp
    ELSE [comp EXCEPT !.GitHub.Branch = PRRefFromContext(c).ref]

\* the callback given to godo.ForEachAppSpecComponent
SanitizeComponent(comp, c) ==
  IF comp.GitHub.isNil \/ comp.GitHub.Repo # FullRepo(c)
    THEN comp
    ELSE [comp EXCEPT !.GitHub.DeployOnPush = FALSE,
                      !.GitHub.Branch = c.HeadRef]

\* godo.ForEachAppSpecComponent with the callback above: services, workers,
\* jobs and functions, each in list order
SanitizeComponents(s, c) ==
  [s EXCEPT !.Services  = [i \in 1..Len(s.Services)  |-> SanitizeComponent(s.Services[i], c)],
            !.Workers   = [i \in 1..Len(s.Workers)   |-> SanitizeComponent(s.Workers[i], c)],
            !.Jobs      = [i \in 1..Len(s.Jobs)      |-> SanitizeComponent(s.Jobs[i], c)],
            !.Functions = [i \in 1..Len(s.Functions) |-> SanitizeComponent(s.Functions[i], c)]]

\* if !preserveDomains { spec.Domains = nil }
UnsetDomains(s, keep) ==
  IF ~keep THEN [s EXCEPT !.Domains = NilList] ELSE s

\* mutant: alerts are cleared only together with the domains
UnsetAlerts_Keep(s) == IF s.Domains.isNil THEN [s EXCEPT !.Alerts = NilList] ELSE s

\* spec.Alerts = nil
UnsetAlerts(s) == [s EXCEPT !.Alerts = NilList]

\* if preserveDomains && spec.Domains != nil { SubstituteDomainTokens }
SubstituteIfPreserved(s, c, keep) ==
  IF keep /\ ~s.Domains.isNil THEN SubstituteDomainTokens(s, c) ELSE s

\* the steps of the sanitizer after the name is set, the same in both copies
SanitizeRest(s, c, keep) ==
  SubstituteIfPreserved(SanitizeComponents(UnsetAlerts(UnsetDomains(s, keep)), c), c, keep)

\* SanitizeSpecForPullRequestPreview of the hashed copy
HashedSanitizeSpecForPullRequestPreview(s, c, keep) ==
  LET r == PRRefFromContext(c)
  IN  IF r.err # Nil
        THEN [spec |-> s, err |-> r.err]
        ELSE [spec |-> SanitizeRest(
                [s EXCEPT !.Name = HashedGenerateAppName(c.repoOwner, c.repo, r.ref)],
                c, keep),
              err |-> Nil]

\* SanitizeSpecForPullRequestPreview of utils/preview.go
SanitizeSpecForPullRequestPreview(s, c, keep) ==
  [spec |-> SanitizeRest(
     [s EXCEPT !.Name = GenerateAppName(c.repoOwner, c.repo, c.HeadRef)],
     c, keep),
   err |-> Nil]

----------------------------------------------------------------------------
(* Inputs *)

Rep(c, n) == [i \in 1..n |-> c]

StrFoo == <<"f","o","o">>
StrBar == <<"b","a","r">>
StrMain == <<"m","a","i","n">>

GitHubRef(repo) ==
  [isNil |-> FALSE, Repo |-> repo, Branch |-> StrMain, DeployOnPush |-> TRUE]
NoGitHubRef ==
  [isNil |-> TRUE, Repo |-> <<>>, Branch |-> <<>>, DeployOnPush |-> FALSE]

\* components: sourced from foo/bar, from another repository, from a
\* repository whose name differs from foo/bar in case only, and without a
\* GitHub source
CompSame  == [Name |-> "web",  GitHub |-> GitHubRef(<<"f","o","o","/","b","a","r">>)]
CompOther == [Name |-> "web2", GitHub |-> GitHubRef(<<"a","n","o","t","h","e","r","/","r","e","p","o">>)]
CompCase  == [Name |-> "api",  GitHub |-> GitHubRef(<<"F","o","o","/","b","a","r">>)]
CompNone  == [Name |-> "img",  GitHub |-> NoGitHubRef]

Layouts ==
  { [Services |-> <<CompSame, CompOther>>, Workers |-> <<CompSame>>,
     Jobs |-> <<CompSame>>, Functions |-> <<CompSame>>],
    [Services |-> <<CompNone>>, Workers |-> <<CompOther>>,
     Jobs |-> <<CompCase, CompSame>>, Functions |-> <<CompOther>>],
    [Services |-> <<>>, Workers |-> <<CompCase>>,
     Jobs |-> <<CompNone>>, Functions |-> <<CompNone, CompCase, CompSame>>] }

DomainLists ==
  { NilList,
    [isNil |-> FALSE, elems |-> <<>>],
    [isNil |-> FALSE, elems |-> << <<"f","o","o",".","c","o","m">> >>],
    [isNil |-> FALSE, elems |-> << TokBranch >>],
    [isNil |-> FALSE, elems |-> << <<"{","B","R","A","N","C","H","}",".","{","O","W","N","E","R","}","-","{","R","E","P","O","}",".","i","o">> >>],
    [isNil |-> FALSE, elems |-> << <<"p","r","-","{","P","R","_","N","U","M","B","E","R","}",".","x">>,
                                   <<"{","{","B","R","A","N","C","H","}","O","W","N","E","R","}",".","x">> >>] }

AlertLists == { NilList, [isNil |-> FALSE, elems |-> <<80>>] }

\* a head ref longer than the label limit that starts with a hyphen and has
\* a hyphen just behind the cut
LongHeadRef == <<"-">> \o Rep("a", MaxPad - 2) \o <<"-", "b">>

HeadRefs ==
  { <<"f","e","a","t","u","r","e","-","b","r","a","n","c","h">>,
    <<"F","e","a","t","u","r","e","/","T","e","s","t","_","1",".","0">>,
    <<"_">>,
    LongHeadRef }

\* the event payload: no pull_request object, a pull_request object without
\* a numeric number, and numbers 3, 3.5 and MaxPR (in tenths)
Events ==
  { [hasPullRequest |-> FALSE, hasNumber |-> FALSE, number |-> 0],
    [hasPullRequest |-> TRUE,  hasNumber |-> FALSE, number |-> 0] }
  \cup { [hasPullRequest |-> TRUE, hasNumber |-> TRUE, number |-> n] :
           n \in {30, 35, 10 * MaxPR} }

Contexts ==
  { [repoOwner |-> o, repo |-> StrBar, HeadRef |-> h, Event |-> e] :
      o \in {StrFoo, <<"F","o","o">>}, h \in HeadRefs, e \in Events }

Packages == {"utils", "hashed"}

Specs ==
  { [Name |-> PlainName(StrFoo), Domains |-> d, Alerts |-> a,
     Services |-> l.Services, Workers |-> l.Workers,
     Jobs |-> l.Jobs, Functions |-> l.Functions] :
      d \in DomainLists, a \in AlertLists, l \in Layouts }

\* inputs of GenerateAppName
Owners == { StrFoo, <<"a">>, <<"a","-","b">>,
            <<"t","h","i","s","i","s","a","n","e","x","t","r","e","m","e","l","y","l","o","n","g","r","e","p","o","h","o","s","t","n","a","m","e">> }
Repos == { StrBar, <<"c">>, <<"b","-","c">> }
Refs ==
  { <<"3","/","m","e","r","g","e">>,
    <<>>,
    <<"a"," ","b">>,
    <<"V","1",":","x">>,
    Rep("a", NameLimit - 1) \o <<"-", "b", "b">> }

NoOutput ==
  [valid |-> FALSE, owner |-> <<>>, repo |-> <<>>, ref |-> <<>>,
   hashed |-> PlainName(<<>>), plain |-> PlainName(<<>>)]

----------------------------------------------------------------------------
(* The sanitizer run on a spec object *)

Init ==
  /\ pkg \in Packages
  /\ spec \in Specs
  /\ pre = spec
  /\ ghCtx \in Contexts
  /\ preserveDomains \in BOOLEAN
  /\ err = Nil
  /\ calls = 0
  /\ out = NoOutput
  /\ prev = NoOutput

\* one call of SanitizeSpecForPullRequestPreview(spec, ghCtx, preserveDomains)
Sanitize ==
  /\ calls < MaxCalls
  /\ LET r == IF pkg = "hashed"
                THEN HashedSanitizeSpecForPullRequestPreview(spec, ghCtx, preserveDomains)
                ELSE SanitizeSpecForPullRequestPreview(spec, ghCtx, preserveDomains)
     IN  /\ spec' = r.spec
         /\ err' = r.err
  /\ pre' = spec
  /\ calls' = calls + 1
  /\ UNCHANGED <<pkg, ghCtx, preserveDomains, out, prev>>

Next == Sanitize

Spec == Init /\ [][Next]_vars

----------------------------------------------------------------------------
(* GenerateAppName applied to owner, repo and ref strings *)

InitName ==
  /\ pkg = "utils"
  /\ spec = CHOOSE s \in Specs : s.Domains.isNil /\ s.Alerts.isNil /\ s.Services = <<>>
  /\ pre = spec
  /\ ghCtx = CHOOSE c \in Contexts : c.repoOwner = StrFoo /\ c.HeadRef = <<"_">>
                                     /\ ~c.Event.hasPullRequest
  /\ preserveDomains = FALSE
  /\ err = Nil
  /\ calls = 0
  /\ out = NoOutput
  /\ prev = NoOutput

\* one call of GenerateAppName of each copy, the last result kept in prev
Generate ==
  /\ \E o \in Owners, r \in Repos, f \in Refs :
       out' = [valid |-> TRUE, owner |-> o, repo |-> r, ref |-> f,
               hashed |-> HashedGenerateAppName(o, r, f),
               plain |-> GenerateAppName(o, r, f)]
  /\ prev' = out
  /\ UNCHANGED <<pkg, spec, pre, ghCtx, preserveDomains, err, calls>>

NextName == Generate

SpecName == InitName /\ [][NextName]_vars

----------------------------------------------------------------------------
(* Vocabulary of the properties *)

\* the buildable components in the order of godo.ForEachAppSpecComponent
Comps(s) == s.Services \o s.Workers \o s.Jobs \o s.Functions

\* the last call of the sanitizer returned a nil error
Succeeded == calls > 0 /\ err = Nil

Tokens == {TokBranch, TokPRNumber, TokRepo, TokOwner}

\* one of the four token literals occurs in s
ContainsToken(s) ==
  \E k \in 1..Len(s) : \E tok \in Tokens : HasPrefix(SubSeq(s, k, Len(s)), tok)

\* head ref after lower-casing, '/', '_', '.' -> '-' and the charset filter
Filtered(h) == StripNonLabel(DashReplace(ToLower(h)))

\* s matches ^[a-z0-9-]+-[0-9a-f]{8}$, for a name string
MatchesNameFormat(n) ==
  IF n.hashed
    THEN n.text # <<>> /\ Range(n.text) \subseteq LabelBytes
    ELSE LET l == Len(n.text)
         IN  /\ l >= HexLen + 2
             /\ \A i \in (l - HexLen + 1)..l : n.text[i] \in HexBytes
             /\ n.text[l - HexLen] = "-"
             /\ \A i \in 1..(l - HexLen - 1) : n.text[i] \in LabelBytes

\* the pull-request number of the event, as an integer
PRNumber == IntOfFloat(ghCtx.Event.number)

MergeRef == FormatInt(PRNumber) \o <<"/","m","e","r","g","e">>

----------------------------------------------------------------------------
(* Properties *)

\* C1: after a successful sanitizer call, every component of the four lists
\* that has no GitHub source, or whose source repo is not exactly
\* "<owner>/<repo>", has the same repo, branch and deployOnPush as before.
C1_OtherReposUntouched ==
  Succeeded =>
    /\ Len(Comps(spec)) = Len(Comps(pre))
    /\ \A i \in 1..Len(Comps(pre)) :
         (Comps(pre)[i].GitHub.isNil \/ Comps(pre)[i].GitHub.Repo # FullRepo(ghCtx))
           => Comps(spec)[i].GitHub = Comps(pre)[i].GitHub

C1_Witness ==
  /\ calls = 1 /\ err = Nil
  /\ \E i \in 1..Len(Comps(pre)) :
       /\ ~Comps(pre)[i].GitHub.isNil
       /\ Comps(pre)[i].GitHub.Repo # FullRepo(ghCtx)
       /\ ToLower(Comps(pre)[i].GitHub.Repo) = ToLower(FullRepo(ghCtx))
       /\ Comps(spec)[i].GitHub.Branch = StrMain
       /\ Comps(spec)[i].GitHub.DeployOnPush
  /\ \E j \in 1..Len(Comps(pre)) : Comps(spec)[j] # Comps(pre)[j]

\* C2: after a successful sanitizer call, every component of the four lists
\* whose source repo is "<owner>/<repo>" has deployOnPush = false and branch
\* = the raw headRef, its repo unchanged.
C2_SameRepoRedirected ==
  Succeeded =>
    \A i \in 1..Len(Comps(pre)) :
      (~Comps(pre)[i].GitHub.isNil /\ Comps(pre)[i].GitHub.Repo = FullRepo(ghCtx))
        => /\ ~Comps(spec)[i].GitHub.isNil
           /\ Comps(spec)[i].GitHub.DeployOnPush = FALSE
           /\ Comps(spec)[i].GitHub.Branch = ghCtx.HeadRef
           /\ Comps(spec)[i].GitHub.Repo = Comps(pre)[i].GitHub.Repo

C2_Witness ==
  /\ calls = 1 /\ err = Nil /\ pkg = "hashed"
  /\ ghCtx.HeadRef # MergeRef
  /\ \A l \in {spec.Services, spec.Workers, spec.Jobs, spec.Functions} :
       \E i \in 1..Len(l) : l[i].GitHub.Branch = ghCtx.HeadRef /\ ~l[i].GitHub.DeployOnPush
  /\ \E i \in 1..Len(Comps(pre)) :
       Comps(pre)[i].GitHub.DeployOnPush /\ ~Comps(spec)[i].GitHub.DeployOnPush

C4_NameFromMergeRef ==
  Succeeded =>
    /\ ghCtx.Event.hasPullRequest /\ ghCtx.Event.hasNumber
    /\ spec.Name = HashedGenerateAppName(ghCtx.repoOwner, ghCtx.repo, MergeRef)

\* C5: after a successful sanitizer call the alerts are empty for either
\* value of preserveDomains, and the domains are empty when preserveDomains
\* is false.
C5_AlertsAndDomainsCleared ==
  Succeeded =>
    /\ spec.Alerts.elems = <<>> /\ spec.Alerts.isNil
    /\ ~preserveDomains => (spec.Domains.elems = <<>> /\ spec.Domains.isNil)

C5_Witness ==
  /\ calls = 1 /\ err = Nil
  /\ preserveDomains
  /\ pre.Alerts.elems # <<>>
  /\ spec.Domains.elems # <<>>
  /\ spec.Alerts.isNil

\* C6: when the event has no pull_request object, or no numeric number in
\* it, the sanitizer returns an error and leaves the spec as it was.
C6_MissingPRFailsUntouched ==
  (calls > 0 /\ (~ghCtx.Event.hasPullRequest \/ ~ghCtx.Event.hasNumber))
    => err # Nil /\ spec = pre

\* C7: with the digest injective on its input, two (owner, repo, ref)
\* triples that differ in a field get different hash suffixes and different
\* names.
C7_DistinctTriplesDistinctNames ==
  (out.valid /\ prev.valid
   /\ <<out.owner, out.repo, out.ref>> # <<prev.owner, prev.repo, prev.ref>>)
    => out.hashed.sum # prev.hashed.sum /\ out.hashed # prev.hashed

\* C8: for ASCII owner, repo and ref the name matches
\* ^[a-z0-9-]+-[0-9a-f]{8}$.
C8_NameFormat ==
  out.valid => MatchesNameFormat(out.hashed) /\ MatchesNameFormat(out.plain)

\* C9 as stated: a second successful sanitizer call with the same context
\* and flag changes nothing of the spec.
C9_Idempotent ==
  (calls >= 2 /\ err = Nil) => spec = pre

\* C9 amended: a second successful call changes neither the name, nor the
\* alerts, nor a component; it leaves the domains as they are when
\* preserveDomains is false or when no domain string left by the first call
\* contains one of the four token literals.
C9_IdempotentWithoutTokens ==
  (calls >= 2 /\ err = Nil) =>
    /\ spec.Name = pre.Name
    /\ spec.Alerts = pre.Alerts
    /\ Comps(spec) = Comps(pre)
    /\ (~preserveDomains \/ \A i \in 1..Len(pre.Domains.elems) :
                               ~ContainsToken(pre.Domains.elems[i]))
         => spec.Domains = pre.Domains

C9_Witness ==
  /\ calls = 2 /\ err = Nil
  /\ preserveDomains
  /\ spec.Domains.elems # <<>>
  /\ \A i \in 1..Len(pre.Domains.elems) : ~ContainsToken(pre.Domains.elems[i])
  /\ spec.Domains.elems[1] # <<"f","o","o",".","c","o","m">>
  /\ spec.Name # PlainName(StrFoo)
  /\ \E i \in 1..Len(Comps(spec)) : Comps(spec)[i].GitHub.Branch = ghCtx.HeadRef

\* C10: the value put in place of {BRANCH} has at most 63 characters, all
\* of [a-z0-9-], neither begins nor ends with a hyphen, and is the filtered
\* head ref cut to 63 characters first and stripped of its leading and
\* trailing hyphens after that: it lies within the first 63 characters of
\* the filtered head ref, and what is left of them on either side is
\* hyphens.
C10_BranchLabel ==
  \A i \in 1..Len(pre.Domains.elems) :
    (Succeeded /\ preserveDomains /\ pre.Domains.elems[i] = TokBranch) =>
      LET v == spec.Domains.elems[i]
          f == Filtered(ghCtx.HeadRef)
          c == Min(Len(f), 63)
      IN  /\ Len(v) <= 63
          /\ Range(v) \subseteq LabelBytes
          /\ v # <<>> => (v[1] # "-" /\ v[Len(v)] # "-")
          /\ \E k \in 0..c :
               /\ k + Len(v) <= c
               /\ v = SubSeq(f, k + 1, k + Len(v))
               /\ \A j \in (1..k) \cup ((k + Len(v) + 1)..c) : f[j] = "-"

C10_Witness ==
  /\ calls = 1 /\ err = Nil /\ preserveDomains
  /\ pre.Domains.elems = <<TokBranch>>
  /\ Len(Filtered(ghCtx.HeadRef)) > 63
  /\ Filtered(ghCtx.HeadRef)[1] = "-"
  /\ Len(spec.Domains.elems[1]) = 62

====
